---- MODULE Spec2Model ----
(***************************************************************************)
(* gridmetetl: the weighted spatial aggregation of gridded daily climate   *)
(* data onto hydrologic response units (FpoNHM.initialize / run_weights /  *)
(* finalize in etl.py, and the averaging helpers of helper.py).            *)
(*                                                                         *)
(* Floating-point values are modelled as exact rationals plus the special  *)
(* values the code can produce (NaN, +inf, -inf) and the netCDF fill value *)
(* default_fillvals['f8'] = 9.969209968386869e+36, which lies far outside  *)
(* the integer range of the checker and is therefore carried as a value of *)
(* its own kind.  Rounding of float64 sums is not modelled.                *)
(***************************************************************************)
EXTENDS Integers, Sequences, FiniteSets, TLC

(***************************************************************************)
(* Bounds of the model.                                                    *)
(***************************************************************************)
MaxLen == 3        \* longest (data, weights) group handed to an averaging function
MaxWtRows == 3     \* most rows of a weights file in the grouping specification
MaxRows == 2       \* most rows of the weights file in the lifecycle specification
MaxDays == 2       \* most days requested / returned
NumCells == 2      \* lat*lon cells of the flattened grid

(***************************************************************************)
(* float64 values: [k, n, d] with k the kind and n/d a reduced fraction.   *)
(***************************************************************************)
Abs(i) == IF i < 0 THEN -i ELSE i

RECURSIVE GCD(_, _)
GCD(a, b) == IF b = 0 THEN a ELSE GCD(b, a % b)

\* the rational n/d (d # 0) in lowest terms with a positive denominator
Num(n, d) ==
    LET g == GCD(Abs(n), Abs(d))
        s == IF d < 0 THEN -1 ELSE 1
    IN  [k |-> "num", n |-> (s * n) \div g, d |-> (s * d) \div g]

NaN == [k |-> "nan", n |-> 0, d |-> 1]
PInf == [k |-> "inf", n |-> 1, d |-> 1]
NInf == [k |-> "inf", n |-> -1, d |-> 1]
Zero == Num(0, 1)

\* netCDF4.default_fillvals: the entry the code uses
default_fillvals == [f8 |-> [k |-> "fill", n |-> 0, d |-> 1]]

\* numpy.ma.masked, the result of a masked reduction
masked == [k |-> "masked", n |-> 0, d |-> 1]

isnan(x) == x.k = "nan"

\* x + y, x - y, x * y on float64 (operands finite or NaN)
FAdd(x, y) ==
    IF isnan(x) \/ isnan(y) THEN NaN
    ELSE Num(x.n * y.d + y.n * x.d, x.d * y.d)

FSub(x, y) ==
    IF isnan(x) \/ isnan(y) THEN NaN
    ELSE Num(x.n * y.d - y.n * x.d, x.d * y.d)

FMul(x, y) ==
    IF isnan(x) \/ isnan(y) THEN NaN
    ELSE Num(x.n * y.n, x.d * y.d)

\* x / y on numpy float64 scalars: a zero divisor gives nan or +-inf, no exception
FDiv(x, y) ==
    IF isnan(x) \/ isnan(y) THEN NaN
    ELSE IF y.n = 0
         THEN IF x.n = 0 THEN NaN ELSE IF x.n > 0 THEN PInf ELSE NInf
         ELSE Num(x.n * y.d, x.d * y.n)

\* ndarray.sum()
RECURSIVE FSum(_)
FSum(s) == IF s = <<>> THEN Zero ELSE FAdd(Head(s), FSum(Tail(s)))

\* elementwise a * wgt
Multiply(a, wgt) == [i \in 1..Len(a) |-> FMul(a[i], wgt[i])]

(***************************************************************************)
(* numpy.average(data, weights=wghts): the sum of the weights is tested    *)
(* first and a zero sum raises ZeroDivisionError; NaN data propagate.      *)
(***************************************************************************)
average(data, wghts) ==
    LET scl == FSum(wghts)
    IN  IF scl = Zero
        THEN [raised |-> "ZeroDivisionError", value |-> NaN]
        ELSE [raised |-> "none", value |-> FDiv(FSum(Multiply(data, wghts)), scl)]

\* getaverage with the weights left out of the call: average(data)
getaverage_unweighted(data, wghts) ==
    IF data = <<>> THEN NaN ELSE FDiv(FSum(data), Num(Len(data), 1))

\* getaverage with the weights taken in the opposite order to the data:
\* average(data, weights=wghts[::-1])
getaverage_misaligned(data, wghts) ==
    LET r == average(data, [i \in 1..Len(wghts) |-> wghts[Len(wghts) + 1 - i]])
    IN  IF r.raised = "ZeroDivisionError" THEN default_fillvals.f8 ELSE r.value

\* FpoNHM.run_weights.getaverage
getaverage(data, wghts) ==
    LET r == average(data, wghts)
    IN  IF r.raised = "ZeroDivisionError" THEN default_fillvals.f8 ELSE r.value

\* helper.getaverage
helper_getaverage(data, wghts) ==
    LET r == average(data, wghts)
    IN  IF r.raised = "ZeroDivisionError" THEN default_fillvals.f8 ELSE r.value

(***************************************************************************)
(* numpy.ma: masked_array(ndata, isnan(ndata)) and ma.average.             *)
(***************************************************************************)
masked_array(ndata) == [data |-> ndata, mask |-> [i \in 1..Len(ndata) |-> isnan(ndata[i])]]

\* MaskedArray.sum(): masked when every element is masked, else the sum of the
\* unmasked elements
ma_sum(data, mask) ==
    IF \A i \in 1..Len(data) : mask[i]
    THEN masked
    ELSE FSum([i \in 1..Len(data) |-> IF mask[i] THEN Zero ELSE data[i]])

ma_average(a, weights) ==
    LET wgt == [i \in 1..Len(weights) |-> IF a.mask[i] THEN Zero ELSE weights[i]]
        scl == ma_sum(wgt, a.mask)
        tot == ma_sum(Multiply(a.data, wgt), a.mask)
    IN  IF scl = masked \/ tot = masked THEN masked ELSE FDiv(tot, scl)

\* helper.np_get_wval
np_get_wval(ndata, wghts) ==
    LET mdata == masked_array(ndata)
        tmp == ma_average(mdata, wghts)
    IN  IF tmp = masked THEN default_fillvals.f8 ELSE tmp

(***************************************************************************)
(* The weights file and its grouping (pandas read_csv / groupby /          *)
(* get_group).  A row is [hru_id_nat, grid_ids, w]; column 1 of the file   *)
(* is the grouping key.                                                    *)
(***************************************************************************)
Row(h, g, wt) == [hru_id_nat |-> h, grid_ids |-> g, w |-> wt]

\* grouping that keeps only the last row of every key (groups[key] = row)
groupby_overwrite(wght_uofi) ==
    [h \in {wght_uofi[i].hru_id_nat : i \in 1..Len(wght_uofi)} |->
        LET rows == SelectSeq(wght_uofi, LAMBDA r : r.hru_id_nat = h)
        IN  <<rows[Len(rows)]>>]

\* DataFrame.groupby(wghts_id): every distinct key with its rows, in file order
groupby(wght_uofi) ==
    [h \in {wght_uofi[i].hru_id_nat : i \in 1..Len(wght_uofi)} |->
        SelectSeq(wght_uofi, LAMBDA r : r.hru_id_nat = h)]

\* GroupBy.get_group(name): KeyError for a key that has no rows
get_group(groups, name) ==
    IF name \in DOMAIN groups
    THEN [raised |-> "none", rows |-> groups[name]]
    ELSE [raised |-> "KeyError", rows |-> <<>>]

\* weight_id_rows.w.values and weight_id_rows.grid_ids.values
w_values(rows) == [j \in 1..Len(rows) |-> rows[j].w]
grid_ids_values(rows) == [j \in 1..Len(rows) |-> rows[j].grid_ids]

(***************************************************************************)
(* State.  The fields of FpoNHM that the aggregation reads or writes, the  *)
(* files it reads and writes, and the position of its caller.              *)
(***************************************************************************)
VARIABLES
    vars,            \* self.vars: the configured variables
    numdays,         \* self.numdays
    gdf,             \* self.gdf.hru_id_nat.values, position -> unit id
    num_hru,         \* self.num_hru
    ds,              \* self.ds: variable -> day -> flattened cell -> value
    dayshape,        \* self.dayshape: days the service returned
    wghts_file,      \* the rows of the weights file on disk
    unique_hru_ids,  \* self.unique_hru_ids: the groupby of the weights file
    np,              \* self.np_<var>: variable -> day -> unit position -> value
    ncfile,          \* the netCDF file finalize writes
    pc,              \* where the caller is in initialize / run_weights / finalize
    day,             \* the day the loop of run_weights is at
    ret,             \* what initialize returned
    raised,          \* the exception that ended a method, "none" otherwise
    ndata,           \* argument of the averaging functions called on their own
    wghts,           \* argument of the averaging functions called on their own
    v_ave,           \* their results, by function name
    weight_id_rows,  \* the result of get_group called on its own
    type,            \* self.type: 'days' or 'date'
    start_date,      \* self.start_date
    end_date,        \* self.end_date
    clock,           \* the system clock that dt.datetime.now() reads
    todo,            \* the variables the download loop of initialize has yet to request
    extracts         \* the local list ncfile of initialize: the files downloaded so far

progvars == <<vars, numdays, gdf, num_hru, ds, dayshape, unique_hru_ids, np,
              ncfile, day, ret, raised>>
aggvars == <<ndata, wghts, v_ave>>
urlvars == <<type, start_date, end_date, clock, todo, extracts>>
state == <<vars, numdays, gdf, num_hru, ds, dayshape, wghts_file, unique_hru_ids, np,
           ncfile, pc, day, ret, raised, ndata, wghts, v_ave, weight_id_rows,
           type, start_date, end_date, clock, todo, extracts>>

None == "None"

\* self.gmss_vars: the seven variables of the GridMetSS source
gmss_vars == {"tmax", "tmin", "ppt", "rhmax", "rhmin", "ws", "srad"}

(***************************************************************************)
(* Inputs.                                                                 *)
(***************************************************************************)
Cells == 0..(NumCells - 1)
HruIds == {1, 2}

\* a zero-based array from a sequence
Arr(s) == [i \in 0..(Len(s) - 1) |-> s[i + 1]]

\* the lists of variables a run is configured with
VarChoices == {{"ppt", "tmin"}, gmss_vars}

\* the unit ids of the shapefiles, in the order of the GeoDataFrame
Gdfs == {Arr(<<1>>), Arr(<<2, 1>>)}

\* weights of the rows of a weights file
MainW == {Num(-1, 10), Num(0, 1), Num(1, 2)}

\* a finite raw value for every (variable, day, cell), all different
VarBase == [tmax |-> 310, tmin |-> 280, ppt |-> 1, rhmax |-> 150, rhmin |-> 100,
            ws |-> 50, srad |-> 200]
GridValue(v, d, c) == Num(VarBase[v] + 10 * d + 3 * c, 1)

\* the cells outside the data domain, which the service returns as NaN
NanCellChoices == {0..(k - 1) : k \in 0..NumCells}

\* what the service returns for nd days
Response(vs, nd, nancells) ==
    [v \in vs |-> [d \in 0..(nd - 1) |->
        [c \in Cells |-> IF c \in nancells THEN NaN ELSE GridValue(v, d, c)]]]

\* weights files with one row per (unit, cell) pair, sorted by unit and cell
Pairs == HruIds \X Cells
Rank(p) == p[1] * NumCells + p[2]

RECURSIVE SortedRows(_, _)
SortedRows(P, f) ==
    IF P = {} THEN <<>>
    ELSE LET m == CHOOSE p \in P : \A q \in P : Rank(p) <= Rank(q)
         IN  <<Row(m[1], m[2], f[m])>> \o SortedRows(P \ {m}, f)

WeightFiles ==
    UNION { {SortedRows(P, f) : f \in [P -> MainW]} :
            P \in {Q \in SUBSET Pairs : Cardinality(Q) <= MaxRows} }

(***************************************************************************)
(* FpoNHM.__init__                                                         *)
(***************************************************************************)
\* datetime values: a calendar day (a day number) and a time of day
datetime(d, t) == [date |-> d, time |-> t]

\* x - dt.timedelta(days=k)
minus_days(x, k) == [x EXCEPT !.date = @ - k]

\* (a - b).days: the whole days of the difference, rounded down
delta_days(a, b) ==
    (a.date - b.date) - (IF a.time = "00:00" /\ b.time # "00:00" THEN 1 ELSE 0)

\* x.strftime("%Y-%m-%d") + suffix: the calendar day, the time of day dropped
strftime(x, suffix) == [ymd |-> x.date, rest |-> suffix]

\* the clock before initialize is called, and no download under way
Idle ==
    /\ clock = datetime(MaxDays + 1, "12:00")
    /\ todo = <<>>
    /\ extracts = <<>>

Constructed ==
    /\ type = None /\ start_date = None /\ end_date = None
    /\ vars = None /\ numdays = None /\ gdf = None /\ num_hru = None
    /\ ds = None /\ dayshape = None /\ unique_hru_ids = None
    /\ np = [v \in gmss_vars |-> None]
    /\ ncfile = None
    /\ pc = "new" /\ day = None /\ ret = None /\ raised = "none"

Init ==
    /\ Constructed
    /\ Idle
    /\ wghts_file \in WeightFiles
    /\ ndata = <<>> /\ wghts = <<>> /\ v_ave = <<>>
    /\ weight_id_rows = None

(***************************************************************************)
(* FpoNHM.initialize with etype 'days': the request succeeds and the       *)
(* service returns rdays day slices, or it fails and the process exits.    *)
(***************************************************************************)
\* initialize reporting success whatever the service returned
returned_always(dshape, ndays) == TRUE

\* the value initialize returns: whether the returned days are the expected ones
returned_expected(dshape, ndays) == dshape = ndays

initialize(ivars, days, shapes, rdays, nancells) ==
    /\ pc = "new"
    /\ vars' = ivars
    /\ numdays' = days
    /\ gdf' = shapes
    /\ num_hru' = Cardinality(DOMAIN shapes)
    /\ ds' = Response(ivars, rdays, nancells)
    /\ dayshape' = rdays
    /\ ret' = returned_expected(rdays, days)
    /\ pc' = "initialized"
    /\ type' = "days" /\ start_date' = None /\ end_date' = None
    /\ UNCHANGED <<wghts_file, unique_hru_ids, np, ncfile, day, raised,
                   aggvars, weight_id_rows, clock, todo, extracts>>

initialize_exit(ivars, days, shapes) ==
    /\ pc = "new"
    /\ vars' = ivars
    /\ numdays' = days
    /\ gdf' = shapes
    /\ num_hru' = Cardinality(DOMAIN shapes)
    /\ raised' = "SystemExit"
    /\ pc' = "exited"
    /\ type' = "days" /\ start_date' = None /\ end_date' = None
    /\ UNCHANGED <<ds, dayshape, ret, wghts_file, unique_hru_ids, np, ncfile, day,
                   aggvars, weight_id_rows, clock, todo, extracts>>

\* FpoNHM.setnumdays, which the caller uses after initialize reported that the
\* service did not return the expected days
setnumdays(num_d) ==
    /\ pc = "initialized"
    /\ ret = FALSE
    /\ numdays' = num_d
    /\ UNCHANGED <<vars, gdf, num_hru, ds, dayshape, wghts_file, unique_hru_ids, np,
                   ncfile, pc, day, ret, raised, aggvars, weight_id_rows, urlvars>>

(***************************************************************************)
(* FpoNHM.run_weights: reading and grouping the weights file and           *)
(* allocating the matrices, then one step per iteration of the day loop,   *)
(* then closing the dataset.                                               *)
(***************************************************************************)
\* numpy.zeros((rows, cols))
zeros(rows, cols) == [d \in 0..(rows - 1) |-> [i \in 0..(cols - 1) |-> Zero]]

\* the offset subtracted from the raw cell values of a variable
offset(v) == IF v \in {"tmax", "tmin"} THEN Num(2735, 10) ELSE Zero

\* d_flt[tgid] - 273.5 for every variable
gathered_every_variable(v, d_flt, tgid) ==
    [j \in 1..Len(tgid) |-> FSub(d_flt[tgid[j]], offset("tmax"))]

\* d_flt[tgid] for tmax and tmin with 273.5 subtracted, d_flt[tgid] for the others
gathered(v, d_flt, tgid) ==
    [j \in 1..Len(tgid) |->
        IF v \in {"tmax", "tmin"} THEN FSub(d_flt[tgid[j]], offset(v)) ELSE d_flt[tgid[j]]]

\* d_<var>[i] of one unit: the average of its gathered cells
unit_value(v, d_flt, rows) ==
    getaverage(gathered(v, d_flt, grid_ids_values(rows)), w_values(rows))

\* d_<var> after the unit loop of a day (every unit has a group)
day_values(v, d, grid, groups, index) ==
    [i \in DOMAIN index |-> unit_value(v, grid[v][d], get_group(groups, index[i]).rows)]

\* the day's values broadcast to every row: self.np_<var>[:, :] = d_<var>[:]
set_day_broadcast(matrix, d, values) == [dd \in DOMAIN matrix |-> values]

\* self.np_<var>[day, :] = d_<var>[:]
set_day(matrix, d, values) == [matrix EXCEPT ![d] = values]

run_weights_begin ==
    /\ pc = "initialized"
    /\ unique_hru_ids' = groupby(wghts_file)
    /\ np' = [v \in gmss_vars |-> zeros(numdays, num_hru)]
    /\ day' = 0
    /\ pc' = "run_weights"
    /\ UNCHANGED <<vars, numdays, gdf, num_hru, ds, dayshape, wghts_file, ncfile, ret,
                   raised, aggvars, weight_id_rows, urlvars>>

run_weights_day ==
    /\ pc = "run_weights"
    /\ day < numdays
    /\ IF day >= dayshape
       THEN \* values[day, :, :] is out of bounds
            /\ raised' = "IndexError"
            /\ pc' = "failed"
            /\ UNCHANGED <<np, day>>
       ELSE IF \E i \in DOMAIN gdf : get_group(unique_hru_ids, gdf[i]).raised = "KeyError"
       THEN /\ raised' = "KeyError"
            /\ pc' = "failed"
            /\ UNCHANGED <<np, day>>
       ELSE /\ np' = [v \in gmss_vars |->
                        IF v \in vars
                        THEN set_day(np[v], day, day_values(v, day, ds, unique_hru_ids, gdf))
                        ELSE np[v]]
            /\ day' = day + 1
            /\ UNCHANGED <<raised, pc>>
    /\ UNCHANGED <<vars, numdays, gdf, num_hru, ds, dayshape, wghts_file, unique_hru_ids,
                   ncfile, ret, aggvars, weight_id_rows, urlvars>>

run_weights_end ==
    /\ pc = "run_weights"
    /\ day = numdays
    /\ pc' = "ran"
    /\ UNCHANGED <<vars, numdays, gdf, num_hru, ds, dayshape, wghts_file, unique_hru_ids,
                   np, ncfile, day, ret, raised, aggvars, weight_id_rows, urlvars>>

(***************************************************************************)
(* FpoNHM.finalize: the netCDF file with one float32 variable per          *)
(* configured variable.                                                    *)
(***************************************************************************)
\* the value stored in a float32 variable: the float32 nearest to x
astype_f4(x) == [f4 |-> x]

\* the name of the netCDF variable of a configured variable
ncname(v) == IF v = "ppt" THEN "prcp" ELSE v

\* createVariable with the missing value chosen per variable: 0 for precipitation
createVariable_per_variable(v, matrix) ==
    [name |-> ncname(v),
     fill_value |-> IF v = "ppt" THEN Zero ELSE default_fillvals.f8,
     data |-> [d \in DOMAIN matrix |-> [i \in DOMAIN matrix[d] |-> astype_f4(matrix[d][i])]]]

\* ncfile.createVariable(name, float32, ('time', 'hruid')) with its fill_value
\* attribute and its data
createVariable(v, matrix) ==
    [name |-> ncname(v),
     fill_value |-> default_fillvals.f8,
     data |-> [d \in DOMAIN matrix |-> [i \in DOMAIN matrix[d] |-> astype_f4(matrix[d][i])]]]

finalize ==
    /\ pc = "ran"
    /\ ncfile' = [time |-> [d \in 0..(numdays - 1) |-> d],
                  hruid |-> gdf,
                  variables |-> [v \in vars |-> createVariable(v, np[v])]]
    /\ pc' = "finalized"
    /\ UNCHANGED <<vars, numdays, gdf, num_hru, ds, dayshape, wghts_file, unique_hru_ids,
                   np, day, ret, raised, aggvars, weight_id_rows, urlvars>>

Next ==
    \/ \E ivars \in VarChoices, days \in 1..MaxDays, shapes \in Gdfs,
          nancells \in NanCellChoices :
          \/ \E rdays \in 1..days : initialize(ivars, days, shapes, rdays, nancells)
          \/ initialize_exit(ivars, days, shapes)
    \/ \E num_d \in 1..MaxDays : setnumdays(num_d)
    \/ run_weights_begin
    \/ run_weights_day
    \/ run_weights_end
    \/ finalize

Spec == Init /\ [][Next]_state

(***************************************************************************)
(* The averaging functions on their own: Init draws a group of cell values *)
(* and weights, the actions call the three functions on it.                *)
(***************************************************************************)
DataVals == {NaN, Num(10, 1), Num(20, 1)}
AggW == {Num(-1, 1), Num(0, 1), Num(1, 1), Num(3, 1)}

AggInit ==
    /\ Constructed
    /\ Idle
    /\ wghts_file = <<>>
    /\ weight_id_rows = None
    /\ \E n \in 0..MaxLen :
          /\ ndata \in [1..n -> DataVals]
          /\ wghts \in [1..n -> AggW]
    /\ v_ave = <<>>

call_getaverage ==
    /\ "getaverage" \notin DOMAIN v_ave
    /\ v_ave' = ("getaverage" :> getaverage(ndata, wghts)) @@ v_ave
    /\ UNCHANGED <<progvars, pc, wghts_file, ndata, wghts, weight_id_rows, urlvars>>

call_helper_getaverage ==
    /\ "helper_getaverage" \notin DOMAIN v_ave
    /\ v_ave' = ("helper_getaverage" :> helper_getaverage(ndata, wghts)) @@ v_ave
    /\ UNCHANGED <<progvars, pc, wghts_file, ndata, wghts, weight_id_rows, urlvars>>

call_np_get_wval ==
    /\ "np_get_wval" \notin DOMAIN v_ave
    /\ v_ave' = ("np_get_wval" :> np_get_wval(ndata, wghts)) @@ v_ave
    /\ UNCHANGED <<progvars, pc, wghts_file, ndata, wghts, weight_id_rows, urlvars>>

AggNext == call_getaverage \/ call_helper_getaverage \/ call_np_get_wval

SpecAgg == AggInit /\ [][AggNext]_state

(***************************************************************************)
(* The grouping of the weights file on its own: Init draws the rows of the *)
(* file in any order, the actions group them as run_weights does and look  *)
(* a unit up.                                                              *)
(***************************************************************************)
WtRowChoices ==
    {Row(h, g, wt) : h \in HruIds, g \in {100, 101, 200}, wt \in {Num(1, 2), Num(1, 1)}}

WtFiles == UNION {[1..n -> WtRowChoices] : n \in 0..MaxWtRows}

WtInit ==
    /\ Constructed
    /\ Idle
    /\ wghts_file \in WtFiles
    /\ ndata = <<>> /\ wghts = <<>> /\ v_ave = <<>>
    /\ weight_id_rows = None

wt_groupby ==
    /\ pc = "new"
    /\ unique_hru_ids' = groupby(wghts_file)
    /\ pc' = "grouped"
    /\ UNCHANGED <<vars, numdays, gdf, num_hru, ds, dayshape, wghts_file, np, ncfile, day,
                   ret, raised, aggvars, weight_id_rows, urlvars>>

wt_get_group(name) ==
    /\ pc = "grouped"
    /\ weight_id_rows' = get_group(unique_hru_ids, name)
    /\ pc' = "looked_up"
    /\ UNCHANGED <<progvars, wghts_file, aggvars, urlvars>>

WtNext == wt_groupby \/ \E name \in HruIds : wt_get_group(name)

SpecWT == WtInit /\ [][WtNext]_state

(***************************************************************************)
(* The retrieval of initialize step by step: the start of the method, one  *)
(* step per iteration of its download loop (get_gm_url, then the request), *)
(* and the opening of the downloaded files and the returned flag.  The     *)
(* clock may pass midnight between two of its readings.                    *)
(***************************************************************************)
MaxMidnights == 1  \* most midnights that pass during a run

\* self.vars as a list, in the order the download loop visits it
VarLists == {<<"ppt">>, <<"tmin", "ppt">>}

\* start_date and end_date: calendar days, start_date not after end_date
Dates == {datetime(d, "00:00") : d \in 1..MaxDays}

\* helper.get_gm_url; now_end and now_start are the two readings of
\* dt.datetime.now(), in the order the code takes them
get_gm_url(etype, dataset, ndays, startdate, enddate, now_end, now_start) ==
    LET dend == IF etype = "days" THEN minus_days(now_end, 1) ELSE enddate
        dstart == IF etype = "days" THEN minus_days(now_start, ndays) ELSE startdate
    IN  [str_start_cf |-> strftime(dstart, " 00:00:00"),
         url |-> dataset,
         payload |-> [var |-> dataset,
                      time_start |-> strftime(dstart, "T00:00:00Z"),
                      time_end |-> strftime(dend, "T00:00:00Z"),
                      timeStride |-> 1]]

\* the day slices the subset service returns for a request: the days from
\* time_start through time_end that it holds data for, last being the latest
Slices(payload, last) ==
    {d \in payload.time_start.ymd .. payload.time_end.ymd : d <= last}

UrlInit ==
    /\ Constructed
    /\ Idle
    /\ wghts_file = <<>>
    /\ ndata = <<>> /\ wghts = <<>> /\ v_ave = <<>>
    /\ weight_id_rows = None

\* initialize up to the download loop
initialize_begin(ivars, etype, days, start, end) ==
    /\ pc = "new"
    /\ vars' = {ivars[k] : k \in 1..Len(ivars)}
    /\ type' = etype
    /\ start_date' = start
    /\ end_date' = end
    /\ gdf' = Arr(<<1>>)
    /\ num_hru' = 1
    /\ numdays' = IF etype = "date" THEN delta_days(end, start) + 1 ELSE days
    /\ todo' = ivars
    /\ extracts' = <<>>
    /\ pc' = "downloading"
    /\ UNCHANGED <<ds, dayshape, wghts_file, unique_hru_ids, np, ncfile, day, ret, raised,
                   aggvars, weight_id_rows, clock>>

\* midnight passes between two iterations of the download loop
midnight ==
    /\ pc = "downloading"
    /\ todo # <<>>
    /\ clock.date < MaxDays + 1 + MaxMidnights
    /\ clock' = [clock EXCEPT !.date = @ + 1]
    /\ UNCHANGED <<progvars, pc, wghts_file, aggvars, weight_id_rows, type, start_date,
                   end_date, todo, extracts>>

\* one iteration of the download loop: get_gm_url and write_extract_file; an
\* empty answer is an HTTP error, on which initialize exits
initialize_download(crossed, last) ==
    /\ pc = "downloading"
    /\ todo # <<>>
    /\ crossed => clock.date < MaxDays + 1 + MaxMidnights
    /\ LET now_end == clock
           now_start == IF crossed THEN [clock EXCEPT !.date = @ + 1] ELSE clock
           r == get_gm_url(type, Head(todo), numdays, start_date, end_date,
                           now_end, now_start)
           file == Slices(r.payload, last)
       IN  /\ clock' = now_start
           /\ IF file = {}
              THEN /\ raised' = "SystemExit"
                   /\ pc' = "exited"
                   /\ UNCHANGED <<todo, extracts>>
              ELSE /\ extracts' = Append(extracts, [var |-> Head(todo),
                                                    called |-> now_end.date,
                                                    str_start |-> r.str_start_cf,
                                                    payload |-> r.payload,
                                                    days |-> file])
                   /\ todo' = Tail(todo)
                   /\ UNCHANGED <<raised, pc>>
    /\ UNCHANGED <<vars, numdays, gdf, num_hru, ds, dayshape, wghts_file, unique_hru_ids,
                   np, ncfile, day, ret, aggvars, weight_id_rows, type, start_date,
                   end_date>>

\* xr.open_mfdataset(ncfile, combine='by_coords'): the day coordinate of the
\* combined dataset is the union of the days of the files
initialize_open ==
    /\ pc = "downloading"
    /\ todo = <<>>
    /\ dayshape' = Cardinality(UNION {extracts[k].days : k \in 1..Len(extracts)})
    /\ ds' = Response(vars, dayshape', {})
    /\ ret' = returned_expected(dayshape', numdays)
    /\ pc' = "initialized"
    /\ UNCHANGED <<vars, numdays, gdf, num_hru, wghts_file, unique_hru_ids, np, ncfile,
                   day, raised, aggvars, weight_id_rows, urlvars>>

UrlNext ==
    \/ \E ivars \in VarLists :
          \/ \E days \in 1..MaxDays : initialize_begin(ivars, "days", days, None, None)
          \/ \E start \in Dates, end \in Dates :
                /\ start.date <= end.date
                /\ initialize_begin(ivars, "date", None, start, end)
    \/ midnight
    \/ \E crossed \in BOOLEAN, last \in {clock.date - 2, clock.date - 1} :
          initialize_download(crossed, last)
    \/ initialize_open

SpecURL == UrlInit /\ [][UrlNext]_state

(***************************************************************************)
(* Properties.                                                             *)
(***************************************************************************)
\* integer sums over a group whose values and weights are whole numbers
RECURSIVE SumW(_)
SumW(ws) == IF ws = <<>> THEN 0 ELSE Head(ws).n + SumW(Tail(ws))

RECURSIVE SumVW(_, _)
SumVW(vs, ws) ==
    IF vs = <<>> THEN 0 ELSE Head(vs).n * Head(ws).n + SumVW(Tail(vs), Tail(ws))

NoNaN(vs) == \A i \in 1..Len(vs) : ~isnan(vs[i])
AllNaN(vs) == \A i \in 1..Len(vs) : isnan(vs[i])

\* C1: for a group with total weight > 0 and no NaN value, getaverage (of
\* run_weights and of helper) and np_get_wval return the weighted mean
\* sum(value_i * weight_i) / sum(weight_i): the result q is a number with
\* q * sum(weight_i) = sum(value_i * weight_i); values [10, 20] with weights
\* [1, 3] give 17.5.
C1_WeightedMean ==
    \A f \in DOMAIN v_ave :
        /\ (NoNaN(ndata) /\ SumW(wghts) > 0) =>
              /\ v_ave[f].k = "num"
              /\ v_ave[f].n * SumW(wghts) = SumVW(ndata, wghts) * v_ave[f].d
        /\ (ndata = <<Num(10, 1), Num(20, 1)>> /\ wghts = <<Num(1, 1), Num(3, 1)>>) =>
              v_ave[f] = Num(35, 2)

C1_Witness ==
    /\ ndata = <<Num(10, 1), Num(20, 1)>>
    /\ wghts = <<Num(1, 1), Num(3, 1)>>
    /\ DOMAIN v_ave = {"getaverage", "helper_getaverage", "np_get_wval"}
    /\ \A f \in DOMAIN v_ave : v_ave[f] = Num(35, 2)

(***************************************************************************)
(* The values run_weights has stored: after the allocation, the rows of    *)
(* the days before `day` of the configured variables.                      *)
(***************************************************************************)
Allocated == pc \in {"run_weights", "ran", "finalized", "failed"}

Stored == {<<v, d, i>> \in vars \X (0..(day - 1)) \X DOMAIN gdf : TRUE}

\* the cell values and the weights run_weights handed to getaverage for a unit
CellValues(v, d, i) ==
    gathered(v, ds[v][d], grid_ids_values(unique_hru_ids[gdf[i]]))
Weights(i) == w_values(unique_hru_ids[gdf[i]])

NonNegative(ws) == \A j \in 1..Len(ws) : ws[j].n >= 0

\* the weighted average over the cells that are not NaN
Unmasked(vs, xs) == [j \in 1..Len(vs) |-> IF isnan(vs[j]) THEN Zero ELSE xs[j]]
MaskedMean(vs, ws) ==
    FDiv(FSum(Unmasked(vs, Multiply(vs, ws))), FSum(Unmasked(vs, ws)))

\* the aggregate of a unit as the specification defines it: the fill value when
\* every cell is NaN or the weight of the cells that are not NaN is zero, else
\* the weighted average over the cells that are not NaN
AggregateUnit(vs, ws) ==
    IF AllNaN(vs) \/ FSum(Unmasked(vs, ws)) = Zero
    THEN default_fillvals.f8
    ELSE MaskedMean(vs, ws)

\* C2: for a unit whose gathered cell values are all NaN (non-negative
\* weights), the value run_weights stores is the fill value
\* default_fillvals['f8'], not NaN and not a numeric average.
C2_AllNaNStoresFill ==
    Allocated =>
        \A t \in Stored :
            (AllNaN(CellValues(t[1], t[2], t[3])) /\ NonNegative(Weights(t[3])))
                => np[t[1]][t[2]][t[3]] = default_fillvals.f8

\* C3: when some but not all gathered cell values of a unit are NaN (and the
\* cells that are not NaN carry weight), the value run_weights stores is the
\* weighted average over the cells that are not NaN: a number, not NaN.
C3_PartialNaNStoresMaskedMean ==
    Allocated =>
        \A t \in Stored :
            LET vs == CellValues(t[1], t[2], t[3])
                ws == Weights(t[3])
            IN  (/\ ~AllNaN(vs) /\ ~NoNaN(vs) /\ NonNegative(ws)
                 /\ FSum(Unmasked(vs, ws)).n > 0)
                    => /\ np[t[1]][t[2]][t[3]] = MaskedMean(vs, ws)
                       /\ ~isnan(np[t[1]][t[2]][t[3]])

\* C4: when the total weight of the cells that are not NaN is zero (weights
\* non-negative, a group of zero weights included), getaverage returns the
\* fill value default_fillvals['f8'], not NaN and not zero.
C4_ZeroWeightGivesFill ==
    \A f \in DOMAIN v_ave \cap {"getaverage", "helper_getaverage"} :
        (NonNegative(wghts) /\ FSum(Unmasked(ndata, wghts)) = Zero)
            => v_ave[f] = default_fillvals.f8

\* a unit of the GeoDataFrame that has no row in the weights file
NoGroup(i) == gdf[i] \notin DOMAIN unique_hru_ids

\* C5: a unit of the GeoDataFrame with no row in the weights file does not
\* make run_weights fail, and every day row stored holds the fill value for it.
C5_EmptyGroupYieldsFill ==
    (Allocated /\ \E i \in DOMAIN gdf : NoGroup(i)) =>
        /\ raised = "none"
        /\ \A t \in Stored : NoGroup(t[3]) => np[t[1]][t[2]][t[3]] = default_fillvals.f8

Count(seq, r) == Cardinality({j \in 1..Len(seq) : seq[j] = r})

\* C7: grouping the weights file by unit id loses, duplicates and misattributes
\* nothing: the groups are keyed by exactly the unit ids of the file, every row
\* of a group carries the group's id, and every row occurs in its unit's group
\* as often as in the file; rows [(1,100,0.5),(1,101,0.5),(2,200,1.0)] give
\* {1: [(100,0.5),(101,0.5)], 2: [(200,1.0)]}.
C7_GroupsAllRows ==
    pc \in {"grouped", "looked_up"} =>
        /\ DOMAIN unique_hru_ids = {wghts_file[j].hru_id_nat : j \in 1..Len(wghts_file)}
        /\ \A h \in DOMAIN unique_hru_ids :
              /\ \A j \in 1..Len(unique_hru_ids[h]) : unique_hru_ids[h][j].hru_id_nat = h
              /\ \A r \in WtRowChoices :
                    r.hru_id_nat = h => Count(unique_hru_ids[h], r) = Count(wghts_file, r)
        /\ wghts_file = <<Row(1, 100, Num(1, 2)), Row(1, 101, Num(1, 2)), Row(2, 200, Num(1, 1))>>
              => /\ DOMAIN unique_hru_ids = {1, 2}
                 /\ grid_ids_values(unique_hru_ids[1]) = <<100, 101>>
                 /\ w_values(unique_hru_ids[1]) = <<Num(1, 2), Num(1, 2)>>
                 /\ grid_ids_values(unique_hru_ids[2]) = <<200>>
                 /\ w_values(unique_hru_ids[2]) = <<Num(1, 1)>>

C7_Witness ==
    /\ wghts_file = <<Row(1, 100, Num(1, 2)), Row(1, 101, Num(1, 2)), Row(2, 200, Num(1, 1))>>
    /\ pc = "looked_up"
    /\ weight_id_rows.raised = "none"
    /\ grid_ids_values(weight_id_rows.rows) = <<100, 101>>

HasNegative(rows) == \E j \in 1..Len(rows) : rows[j].w.n < 0

\* C8: a weights file with a negative weight is rejected with
\* MalformedWeightsError before any day is aggregated, so that no negative
\* weight reaches the aggregation of run_weights.
C8_NegativeWeightRejected ==
    (Allocated /\ HasNegative(wghts_file)) =>
        /\ raised = "MalformedWeightsError"
        /\ day = 0

\* C9: after run_weights every cell v[d][i] of a configured variable is the
\* aggregate (fill value when no valid data, else the weighted average over the
\* cells that are not NaN) of day d's grid of v gathered at the cells of the
\* weight group of unit i.
C9_CellsAreUnitAggregates ==
    pc = "ran" =>
        \A t \in Stored :
            np[t[1]][t[2]][t[3]] = AggregateUnit(CellValues(t[1], t[2], t[3]), Weights(t[3]))

\* every matrix has shape (numdays, num_hru); the rows of the days not yet
\* processed and the matrices of variables that are not configured are zero
C10_Shape ==
    Allocated =>
        \A v \in gmss_vars :
            /\ DOMAIN np[v] = 0..(numdays - 1)
            /\ \A d \in DOMAIN np[v] :
                  /\ DOMAIN np[v][d] = 0..(num_hru - 1)
                  /\ (d >= day \/ v \notin vars) => \A i \in DOMAIN np[v][d] : np[v][d][i] = Zero

\* a step of the day loop changes only the row of its day, and only of the
\* configured variables; after the loop the matrices do not change
C10_Step ==
    /\ pc = "run_weights" =>
          \A v \in gmss_vars :
              /\ v \notin vars => np'[v] = np[v]
              /\ \A d \in DOMAIN np[v] : d # day => np'[v][d] = np[v][d]
    /\ pc \in {"ran", "finalized", "failed"} => np' = np

\* C10: the matrices are allocated zero-filled with shape (numdays, num_hru)
\* before the day loop; rows of days not yet processed are all zero;
\* processing day d changes only row d of the configured variables' matrices,
\* rows already written are not changed again, and after the loop neither
\* finalize nor anything else changes a matrix.
C10_OutputMatrixLifecycle == []C10_Shape /\ [][C10_Step]_<<pc, day, np>>

C10_Witness ==
    /\ pc = "run_weights" /\ numdays = 2 /\ day = 1 /\ num_hru = 2
    /\ \E v \in vars : np[v][0][0] # Zero /\ np[v][0][1] # Zero
    /\ \A v \in gmss_vars : \A i \in DOMAIN gdf : np[v][1][i] = Zero

\* the positions of a group of n pairs with neighbours i and i+1 exchanged;
\* every reordering of a group is a sequence of such exchanges
Exchange(n, i) == [k \in 1..n |-> IF k = i THEN i + 1 ELSE IF k = i + 1 THEN i ELSE k]
Permuted(seq, p) == [i \in 1..Len(seq) |-> seq[p[i]]]

\* the function a result of v_ave came from, applied to another group
Apply(f, vs, ws) ==
    IF f = "getaverage" THEN getaverage(vs, ws)
    ELSE IF f = "helper_getaverage" THEN helper_getaverage(vs, ws)
    ELSE np_get_wval(vs, ws)

\* C11: the aggregate of a group does not depend on the order of its (value,
\* weight) pairs: exchanging two neighbouring pairs, the values and the
\* weights alike, gives the same result (fill value, NaN or number) from
\* getaverage and from np_get_wval, for every group, hence so does every
\* permutation.
C11_OrderInvariant ==
    \A f \in DOMAIN v_ave :
        \A i \in 1..(Len(ndata) - 1) :
            LET p == Exchange(Len(ndata), i)
            IN  Apply(f, Permuted(ndata, p), Permuted(wghts, p)) = v_ave[f]

C11_Witness ==
    /\ ndata = <<NaN, Num(10, 1), Num(20, 1)>>
    /\ wghts = <<Num(1, 1), Num(0, 1), Num(3, 1)>>
    /\ DOMAIN v_ave = {"getaverage", "helper_getaverage", "np_get_wval"}
    /\ v_ave["np_get_wval"] = Num(20, 1)
    /\ v_ave["np_get_wval"] =
          np_get_wval(<<Num(20, 1), NaN, Num(10, 1)>>, <<Num(3, 1), Num(1, 1), Num(0, 1)>>)
    /\ isnan(v_ave["getaverage"])

RawCells(v, d, i) ==
    [j \in 1..Len(unique_hru_ids[gdf[i]]) |-> ds[v][d][unique_hru_ids[gdf[i]][j].grid_ids]]

\* the weighted mean as numpy computes it: sum(value * weight) / sum(weight)
WeightedMean(vs, ws) == FDiv(FSum(Multiply(vs, ws)), FSum(ws))

\* C13: run_weights subtracts one fixed offset, the same for tmax and tmin and
\* for no other variable, from every raw cell before averaging: a raw cell is
\* NaN exactly when the converted cell is, the stored tmax / tmin value is the
\* weighted mean of (raw - offset), which for cells without NaN is the weighted
\* mean of the raw cells minus the offset, and the stored value of ppt, rhmax,
\* rhmin, ws and srad is the weighted mean of the raw cells (units whose
\* weights do not sum to zero; the rows stored so far, while run_weights runs).
C13_OffsetOnlyTemperature ==
    pc = "run_weights" =>
        \A t \in Stored :
            LET v == t[1]
                raw == RawCells(v, t[2], t[3])
                ws == Weights(t[3])
                off == offset("tmax")
                conv == [j \in 1..Len(raw) |-> FSub(raw[j], off)]
                x == np[v][t[2]][t[3]]
            IN  /\ off = offset("tmin") /\ off.k = "num" /\ off # Zero
                /\ FSum(ws) # Zero =>
                      IF v \in {"tmax", "tmin"}
                      THEN /\ \A j \in 1..Len(raw) : isnan(conv[j]) <=> isnan(raw[j])
                           /\ x = WeightedMean(conv, ws)
                           /\ NoNaN(raw) =>
                                 /\ x = FSub(WeightedMean(raw, ws), off)
                                 /\ x # WeightedMean(raw, ws)
                      ELSE x = WeightedMean(raw, ws)

C13_Witness ==
    /\ pc = "run_weights"
    /\ day >= 1
    /\ vars = gmss_vars
    /\ \E i \in DOMAIN gdf :
          /\ Len(Weights(i)) >= 1
          /\ FSum(Weights(i)) # Zero
          /\ NoNaN(RawCells("tmax", 0, i))
          /\ np["tmax"][0][i].k = "num"
          /\ np["tmax"][0][i] =
                FSub(WeightedMean(RawCells("tmax", 0, i), Weights(i)), Num(2735, 10))
          /\ np["ws"][0][i] = WeightedMean(RawCells("ws", 0, i), Weights(i))
    /\ \E i \in DOMAIN gdf :
          /\ FSum(Weights(i)) # Zero
          /\ \E j \in 1..Len(Weights(i)) : isnan(RawCells("tmin", 0, i)[j])
          /\ isnan(np["tmin"][0][i])

\* the days a request asked for
Requested(x) == x.payload.time_start.ymd .. x.payload.time_end.ymd

\* C14: every request of initialize asks for exactly numdays calendar days,
\* first and last included: for type 'date' numdays is
\* (end_date - start_date).days + 1 and the request runs from start_date
\* through end_date, for type 'days' it runs from (today - numdays) through
\* (today - 1), today being the day of the call; and initialize returns True
\* exactly when every request was answered with a slice for each of its days.
C14_WindowSpansNumdays ==
    /\ \A k \in 1..Len(extracts) :
          LET x == extracts[k]
          IN  /\ x.payload.time_end.ymd - x.payload.time_start.ymd + 1 = numdays
              /\ type = "date" =>
                    /\ numdays = delta_days(end_date, start_date) + 1
                    /\ x.payload.time_start.ymd = start_date.date
                    /\ x.payload.time_end.ymd = end_date.date
              /\ type = "days" =>
                    /\ x.payload.time_start.ymd = x.called - numdays
                    /\ x.payload.time_end.ymd = x.called - 1
    /\ pc = "initialized" =>
          (ret = TRUE <=> \A k \in 1..Len(extracts) : extracts[k].days = Requested(extracts[k]))

====
